---------------------------- MODULE Spec2Model ----------------------------
(***************************************************************************)
(* A model of the navigation transition engine of vue-router:              *)
(*   History.transitionTo / confirmTransition / updateRoute  (history/base)*)
(*   runQueue                                                (util/async)  *)
(*   createRoute / isSameRoute / isObjectEqual               (util/route)  *)
(*   VueRouter.beforeEach / beforeResolve / afterEach / addRoutes (index)  *)
(*                                                                         *)
(* JavaScript is single threaded and runs every task to completion.  A     *)
(* task is a call of an entry point (transitionTo, onError, ...) or the    *)
(* invocation of the continuation of a suspended guard.  The only places   *)
(* where the engine hands control to code that decides for itself are the  *)
(* guard invocations `hook(route, current, next)`: there the model stops   *)
(* with the guard "called" and the guard then calls next synchronously,    *)
(* throws, or returns without calling next (it is then "waiting").  While  *)
(* a guard is running (running # 0) no other task can start.               *)
(*                                                                         *)
(* Arrays are 1-based here and 0-based in the source.                      *)
(***************************************************************************)
EXTENDS Integers, Sequences, FiniteSets, TLC

VARIABLES
  tr,           \* the transitionTo calls made so far, in order: one closure each
  current,      \* History.current, as the identity of a Route object
  pending,      \* History.pending, as the identity of a Route object, or NoRoute
  ready,        \* History.ready
  errorCbs,     \* History.errorCbs
  cb,           \* History.cb is set (listen was called)
  beforeHooks,  \* VueRouter.beforeHooks
  resolveHooks, \* VueRouter.resolveHooks
  afterHooks,   \* VueRouter.afterHooks
  added,        \* the route table has been extended by addRoutes
  instances,    \* the records whose view instance is registered
  running,      \* the transition whose guard is executing right now, or 0
  events,       \* the calls to collaborators and callbacks made by the last task step
  rq,           \* a runQueue call driven on its own (see RQRun)
  call          \* the application of a pure function driven on its own (see InitFn)

vars == <<tr, current, pending, ready, errorCbs, cb, beforeHooks, resolveHooks,
          afterHooks, added, instances, running, events, rq, call>>

engineVars == <<tr, current, pending, ready, errorCbs, cb, beforeHooks,
                resolveHooks, afterHooks, added, instances, running, events>>

-----------------------------------------------------------------------------
(* Bounds of the model.                                                    *)

MaxCalls == 3         \* calls of the engine's entry points in one run
MaxQueueLen == 4      \* length of the queues handed to runQueue on its own
MaxChainLen == 3      \* length of the chains handed to resolveQueue on its own
MaxArrayLen == 2      \* length of the arrays in the queries handed to stringifyQuery
MaxKeys == 2          \* number of keys in the queries handed to stringifyQuery

-----------------------------------------------------------------------------
(* Values.                                                                 *)

\* An absent queue item (undefined / null).
Null == <<"null", "">>

\* The identity of pending = null.
NoRoute == -1

\* The identity of the START object.
StartId == 0

\* The empty mapping {}.
EmptyMap == [k \in {} |-> ""]

\* A value a guard hands to next (or throws): tag is its shape.
\*   "undefined"  no argument, or anything that is none of the others
\*   "false"      the boolean false
\*   "error"      an Error-like value
\*   "string"     a string, the path to redirect to
\*   "object"     an object carrying a string path (and perhaps replace)
\*   "function"   a callable
Val(tag, path, replace) == [tag |-> tag, path |-> path, replace |-> replace]

Undefined == Val("undefined", <<>>, FALSE)

\* isError: Object.prototype.toString.call(err) contains 'Error'.
isError(err) == err.tag = "error"

\* The redirect test of the next callback: a string, or an object with a
\* string path or name.
isRedirect(to) == to.tag = "string" \/ to.tag = "object"

-----------------------------------------------------------------------------
(* Routes and the route table.                                             *)
(*                                                                         *)
(* A path is the sequence of its segments after the leading slash:         *)
(*   "/" = <<"">>,  "/a" = <<"a">>,  "/a/" = <<"a", "">>,  "/a/b" = <<"a", "b">> *)
(* so that a path ends with a slash exactly when its last segment is empty *)
(* and the empty string is <<>>.                                           *)

\* The route records of the table.  C is the record addRoutes appends.
Records == {"A", "B", "C"}

\* RouteRecord.parent
parent(record) == IF record = "B" THEN "A" ELSE "none"

\* RouteRecord.name
recordName(record) == IF record = "C" THEN "c" ELSE ""

\* RouteRecord.beforeEnter is defined (B has none).
hasBeforeEnter(record) == record \in {"A", "C"}

\* The component of the record defines the guard (def.options[name]).
extractGuard(record, name) ==
  CASE name = "beforeRouteLeave" -> record \in {"A", "B"}
    [] name = "beforeRouteUpdate" -> record \in {"A", "B"}
    [] name = "beforeRouteEnter" -> record \in {"B", "C"}
    [] OTHER -> FALSE

\* formatMatch: the chain of a record, root first, by walking its parents.
RECURSIVE formatMatch(_)
formatMatch(record) ==
  IF record = "none" THEN <<>>
  ELSE Append(formatMatch(parent(record)), record)

\* path.replace(trailingSlashRE, ''): drops one trailing slash, if any.
stripTrailingSlash(path) ==
  IF Len(path) > 0 /\ path[Len(path)] = ""
  THEN SubSeq(path, 1, Len(path) - 1)
  ELSE path

\* The locations the model navigates to.
Location(path, hash, query) ==
  [path |-> path, hash |-> hash, query |-> query, params |-> EmptyMap]

Locations ==
  { Location(<<"a">>, "", EmptyMap),
    Location(<<"a", "b">>, "", EmptyMap),
    Location(<<"a", "b">>, "h", EmptyMap),
    Location(<<"c">>, "", EmptyMap) }

\* The record the table matches a location to, given whether addRoutes ran.
matchRecord(location, isAdded) ==
  LET p == stripTrailingSlash(location.path) IN
  CASE p = <<"a">> -> "A"
    [] p = <<"a", "b">> -> "B"
    [] p = <<"c">> /\ isAdded -> "C"
    [] OTHER -> "none"

\* createRoute: a new Route object; id stands for its identity.
createRoute(record, location, id) ==
  [ id |-> id,
    name |-> IF record = "none" THEN "" ELSE recordName(record),
    path |-> IF location.path = <<>> THEN <<"">> ELSE location.path,
    hash |-> location.hash,
    query |-> location.query,
    params |-> location.params,
    matched |-> formatMatch(record) ]

\* START = createRoute(null, { path: '/' })
START == createRoute("none", Location(<<"">>, "", EmptyMap), StartId)

\* What stands for a Route object nothing refers to any more.
Dropped == createRoute("none", Location(<<>>, "", EmptyMap), NoRoute)

\* router.match(location, current)
match(location, isAdded, id) ==
  createRoute(matchRecord(location, isAdded), location, id)

\* String(obj[key]) for a mapping of strings: "undefined" for an absent key.
stringOf(obj, key) == IF key \in DOMAIN obj THEN obj[key] ELSE "undefined"

\* isObjectEqual for mappings whose values are strings.
isObjectEqual(a, b) ==
  /\ Cardinality(DOMAIN a) = Cardinality(DOMAIN b)
  /\ \A key \in DOMAIN a : stringOf(a, key) = stringOf(b, key)

\* isSameRoute(a, b), b not null.
isSameRoute(a, b) ==
  IF b.id = StartId THEN a.id = b.id
  ELSE IF a.path # <<>> /\ b.path # <<>> THEN
    /\ stripTrailingSlash(a.path) = stripTrailingSlash(b.path)
    /\ a.hash = b.hash
    /\ isObjectEqual(a.query, b.query)
  ELSE IF a.name # "" /\ b.name # "" THEN
    /\ a.name = b.name
    /\ a.hash = b.hash
    /\ isObjectEqual(a.query, b.query)
    /\ isObjectEqual(a.params, b.params)
  ELSE FALSE

-----------------------------------------------------------------------------
(* resolveQueue and the guard queues.                                      *)

Max(a, b) == IF a >= b THEN a ELSE b

\* s.slice(from) with from counted from 1.
SliceFrom(s, from) == IF from > Len(s) THEN <<>> ELSE SubSeq(s, from, Len(s))

Reverse(s) == [k \in 1..Len(s) |-> s[Len(s) + 1 - k]]

\* arr[k], undefined past the end.
At(s, k) == IF k \in 1..Len(s) THEN s[k] ELSE "undefined"

\* The first index at which the two chains differ, or max + 1.
RECURSIVE firstDifference(_, _, _)
firstDifference(cur, next, k) ==
  IF k > Max(Len(cur), Len(next)) THEN k
  ELSE IF At(cur, k) # At(next, k) THEN k
  ELSE firstDifference(cur, next, k + 1)

\* resolveQueue with activated sliced one index late.
resolveQueueSlicesLate(cur, next) ==
  LET i == firstDifference(cur, next, 1) IN
  [ updated |-> SubSeq(next, 1, i - 1),
    activated |-> SliceFrom(next, i + 1),
    deactivated |-> SliceFrom(cur, i) ]

resolveQueue(cur, next) ==
  LET i == firstDifference(cur, next, 1) IN
  [ updated |-> SubSeq(next, 1, i - 1),
    activated |-> SliceFrom(next, i),
    deactivated |-> SliceFrom(cur, i) ]

\* A queue item: <<kind, name>>, the guard kind and the record or hook it
\* belongs to; Null for an absent one.
Guard(kind, name) == <<kind, name>>

\* bindGuard: bound to the instance, undefined when there is none.
bindGuard(kind, record, inst) ==
  IF record \in inst THEN Guard(kind, record) ELSE Null

\* extractGuards over records with one view each: one item per record, the
\* bound guard or undefined, reversed when asked.
extractGuards(records, name, kind, bound, inst, reverse) ==
  LET guards == [k \in 1..Len(records) |->
                   IF extractGuard(records[k], name)
                   THEN IF bound THEN bindGuard(kind, records[k], inst)
                        ELSE Guard(kind, records[k])
                   ELSE Null]
  IN IF reverse THEN Reverse(guards) ELSE guards

extractLeaveGuards(deactivated, inst) ==
  extractGuards(deactivated, "beforeRouteLeave", "leave", TRUE, inst, TRUE)

extractUpdateHooks(updated, inst) ==
  extractGuards(updated, "beforeRouteUpdate", "update", TRUE, inst, FALSE)

extractEnterGuards(activated) ==
  extractGuards(activated, "beforeRouteEnter", "enter", FALSE, {}, FALSE)

\* activated.map(m => m.beforeEnter)
beforeEnterGuards(activated) ==
  [k \in 1..Len(activated) |->
     IF hasBeforeEnter(activated[k]) THEN Guard("beforeEnter", activated[k])
     ELSE Null]

\* A list of registered hooks as queue items.
hookGuards(kind, hooks) == [k \in 1..Len(hooks) |-> Guard(kind, hooks[k])]

\* resolveAsyncComponents(activated): one queue item.
resolveAsyncComponents(activated) == <<Guard("async", "")>>

\* The phase-1 queue with the global before-hooks ahead of the leave guards.
Phase1QueueHooksFirst(curMatched, nextMatched, before, inst) ==
  LET d == resolveQueue(curMatched, nextMatched) IN
       hookGuards("before", before)
    \o extractLeaveGuards(d.deactivated, inst)
    \o extractUpdateHooks(d.updated, inst)
    \o beforeEnterGuards(d.activated)
    \o resolveAsyncComponents(d.activated)

\* The phase-1 queue of confirmTransition.
Phase1Queue(curMatched, nextMatched, before, inst) ==
  LET d == resolveQueue(curMatched, nextMatched) IN
       extractLeaveGuards(d.deactivated, inst)
    \o hookGuards("before", before)
    \o extractUpdateHooks(d.updated, inst)
    \o beforeEnterGuards(d.activated)
    \o resolveAsyncComponents(d.activated)

\* The phase-2 queue of confirmTransition.
Phase2Queue(activated, resolve) ==
  extractEnterGuards(activated) \o hookGuards("resolve", resolve)

\* step with the absent-item branch stepping two indices on.
RECURSIVE stepSkipsAfterAbsent(_, _)
stepSkipsAfterAbsent(queue, index) ==
  IF index > Len(queue) THEN Len(queue) + 1
  ELSE IF queue[index] # Null THEN index
  ELSE stepSkipsAfterAbsent(queue, index + 2)

\* step with the end test off by one: cb is called at the last index.
RECURSIVE stepEndsEarly(_, _)
stepEndsEarly(queue, index) ==
  IF index >= Len(queue) THEN Len(queue) + 1
  ELSE IF queue[index] # Null THEN index
  ELSE stepEndsEarly(queue, index + 1)

\* runQueue's step(index): the index of the item fn is called on, the absent
\* ones before it skipped, or Len(queue) + 1 when cb is called.
RECURSIVE step(_, _)
step(queue, index) ==
  IF index > Len(queue) THEN index
  ELSE IF queue[index] # Null THEN index
  ELSE step(queue, index + 1)

-----------------------------------------------------------------------------
(* The engine.  The operators below take and return a record m of the      *)
(* fields a task changes: tr, current, pending, ready, events, running.    *)

\* A call made to a collaborator or a callback: its name, the transition it
\* is made for, its argument val (for a registered hook, the hook), and a
\* Route identity n (for ensureURL the History.current it synchronises to, for
\* the listener and the after-hooks the previous current).
Event(name, t, val, n) == [name |-> name, t |-> t, val |-> val, n |-> n]

\* A registered hook or the boolean true as the val of an event.
Named(name) == Val(name, <<>>, FALSE)

Emit(m, e) == [m EXCEPT !.events = Append(@, e)]

\* The Route object with identity id: the one of a closure of the
\* transitionTo call id that still has it.
RouteOf(trs, id) ==
  IF id = StartId THEN START
  ELSE trs[CHOOSE u \in 1..Len(trs) : trs[u].of = id /\ trs[u].route.id = id].route

\* JavaScript truthiness of a value handed to next or thrown.
truthy(v) == v.tag \notin {"undefined", "false"}

\* The closure of one transitionTo call.
\*   st: "called"     the guard at idx is executing
\*       "waiting"    the guard at idx returned without calling next
\*       "noop"       ended by the same-route check
\*       "aborted"    ended by next(false) or next(error)
\*       "thrown"     ended by a guard that threw
\*       "redirected" ended by next(target)
\*       "cancelled"  ended because pending was another route
\*       "committed"  ended by the commit
\*       "escaped"    ended by the commit, the caller's onComplete having thrown
\*   of: the transitionTo call the closure belongs to, which is the identity
\*       of its Route object; the index of the closure itself unless a guard
\*       kept its next to call it a second time (see GuardNextKeepingNext).
Transition(route, from, queue, activated) ==
  [ route |-> route, of |-> route.id, from |-> from, phase |-> 1,
    queue |-> queue, queue1 |-> queue, activated |-> activated,
    idx |-> 0, st |-> "called",
    started |-> <<>>,      \* the <<phase, index>> of the guards invoked, in order
    continued |-> <<>>,    \* the <<phase, index>> whose continuation was invoked
    nComplete |-> 0,       \* calls of the onComplete given to transitionTo
    nAbort |-> 0,          \* calls of the onAbort given to transitionTo
    postEnterCbs |-> <<>>, \* the records whose enter guard handed a callable to next
    polls |-> {} ]         \* the records whose callable waits on the timer of poll

\* updateRoute assigning this.pending to this.current.
updateRouteToPending(m, t) ==
  LET prev == m.current
      m1 == [m EXCEPT !.current = m.pending]
      m2 == IF cb THEN Emit(m1, Event("listener", t, Undefined, prev)) ELSE m1
  IN [m2 EXCEPT !.events =
        @ \o [k \in 1..Len(afterHooks) |-> Event("afterHook", t, Named(afterHooks[k]), prev)]]

\* updateRoute(route) (lines 438-446).
updateRoute(m, t) ==
  LET prev == m.current
      m1 == [m EXCEPT !.current = m.tr[t].of]
      m2 == IF cb THEN Emit(m1, Event("listener", t, Undefined, prev)) ELSE m1
  IN [m2 EXCEPT !.events =
        @ \o [k \in 1..Len(afterHooks) |-> Event("afterHook", t, Named(afterHooks[k]), prev)]]

\* this.errorCbs.forEach(cb => cb(err)), or the console diagnostic.
reportError(m, t, err) ==
  IF Len(errorCbs) > 0
  THEN [m EXCEPT !.events =
          @ \o [k \in 1..Len(errorCbs) |-> Event("errorCb", t, err, m.current)]]
  ELSE Emit(m, Event("console.error", t, err, m.current))

\* The onAbort wrapper of transitionTo (lines 281-289).
onAbortWrapper(m, t, err) ==
  LET m1 == [Emit(m, Event("onAbort", t, err, m.current))
               EXCEPT !.tr[t].nAbort = @ + 1]
  IN IF truthy(err) /\ ~m1.ready
     THEN Emit([m1 EXCEPT !.ready = TRUE],
               Event("readyErrorCbs", t, err, m.current))
     ELSE m1

\* abort that takes the completion path as well.
abortUpdatesRoute(m, t, err) ==
  updateRoute(
    onAbortWrapper(IF isError(err) THEN reportError(m, t, err) ELSE m, t, err), t)

\* abort handing every value to the error callbacks.
abortReportsAll(m, t, err) ==
  onAbortWrapper(reportError(m, t, err), t, err)

\* abort(err) of confirmTransition (lines 305-315).
abort(m, t, err) ==
  onAbortWrapper(IF isError(err) THEN reportError(m, t, err) ELSE m, t, err)

\* The transition has ended in state st and control is back in the event loop.
\* Nothing reads the queues, the cursor or the captured current of a closure
\* that has ended, nor its Route object unless it was committed (the route of
\* a same-route call is kept too: it is value-equal to current): they are
\* dropped from the state.
End(m, t, st) ==
  [m EXCEPT !.tr[t] = [@ EXCEPT !.st = st, !.from = StartId, !.phase = 0,
                                !.route = IF st \in {"committed", "escaped", "noop"} THEN @ ELSE Dropped,
                                !.queue = <<>>, !.queue1 = <<>>,
                                !.activated = <<>>, !.idx = 0,
                                !.started = <<>>, !.continued = <<>>,
                                !.postEnterCbs = IF st = "committed" THEN @ ELSE <<>>],
            !.running = 0]

\* An exception leaves the callbacks of the two runQueue calls and the next
\* callback: the catch of the iterator whose hook made the call takes it
\* (lines 400-402) when the hook is still executing; otherwise it reaches the
\* caller of the continuation uncaught.
unwind(m, t, e) ==
  IF m.sync THEN abort(m, t, e)
  ELSE Emit(m, Event("uncaught", t, e, m.current))

\* The onComplete wrapper calling onComplete and ensureURL before updateRoute.
onCompleteWrapperCallbackFirst(m, t) ==
  LET m1 == [Emit(m, Event("onComplete", t, Undefined, m.current))
               EXCEPT !.tr[t].nComplete = @ + 1]
      m2 == Emit(m1, Event("ensureURL", t, Undefined, m1.current))
      m3 == updateRoute(m2, t)
  IN IF m.onCompleteThrows THEN unwind(m1, t, Val("error", <<>>, FALSE))
     ELSE IF ~m3.ready
     THEN Emit([m3 EXCEPT !.ready = TRUE], Event("readyCbs", t, Undefined, m3.current))
     ELSE m3

\* The onComplete wrapper of transitionTo (lines 271-280).
onCompleteWrapper(m, t) ==
  LET m1 == updateRoute(m, t)
      m2 == [Emit(m1, Event("onComplete", t, Undefined, m1.current))
               EXCEPT !.tr[t].nComplete = @ + 1]
      m3 == Emit(m2, Event("ensureURL", t, Undefined, m2.current))
  IN IF m.onCompleteThrows THEN unwind(m2, t, Val("error", <<>>, FALSE))
     ELSE IF ~m3.ready
     THEN Emit([m3 EXCEPT !.ready = TRUE], Event("readyCbs", t, Undefined, m3.current))
     ELSE m3

\* The callback of the second runQueue leaving pending as it is.
clearPendingKeeps(m, t) ==
  Emit(m, Event("clearPending", t, Undefined, m.current))

\* this.pending = null (line 420), recorded among the calls of the step so
\* that its place in their order can be told.
clearPending(m, t) ==
  Emit([m EXCEPT !.pending = NoRoute], Event("clearPending", t, Undefined, m.current))

\* The callback of the second runQueue taking every route for a stale one.
phase2DoneNeverCommits(m, t) == End(abort(m, t, Undefined), t, "cancelled")

\* The callback of the second runQueue without its test of pending.
phase2DoneUnchecked(m, t) ==
  End(onCompleteWrapper(clearPending(m, t), t), t,
           IF m.onCompleteThrows THEN "escaped" ELSE "committed")

\* The callback of the second runQueue (lines 416-429).
phase2Done(m, t) ==
  IF m.pending # m.tr[t].of THEN End(abort(m, t, Undefined), t, "cancelled")
  ELSE End(onCompleteWrapper(clearPending(m, t), t), t,
           IF m.onCompleteThrows THEN "escaped" ELSE "committed")

\* iterator(hook, next) up to the call of the hook (lines 362-374).
iterator(m, t, index) ==
  IF m.pending # m.tr[t].of THEN End(abort(m, t, Undefined), t, "cancelled")
  ELSE [m EXCEPT !.tr[t].idx = index,
                 !.tr[t].st = "called",
                 !.tr[t].started = Append(@, <<m.tr[t].phase, index>>),
                 !.running = t]

\* runQueue(queue, iterator, cb) of the second phase, from step(index).
runPhase2(m, t, index) ==
  LET k == step(m.tr[t].queue, index) IN
  IF k > Len(m.tr[t].queue) THEN phase2Done(m, t) ELSE iterator(m, t, k)

\* The callback of the first runQueue (lines 406-415).
phase1Done(m, t) ==
  runPhase2([m EXCEPT !.tr[t].phase = 2,
                      !.tr[t].queue = Phase2Queue(m.tr[t].activated, resolveHooks)],
            t, 1)

\* The first runQueue calling its cb once step reaches the last item.
runPhase1EndsEarly(m, t, index) ==
  LET k == step(m.tr[t].queue, index) IN
  IF k >= Len(m.tr[t].queue) THEN phase1Done(m, t) ELSE iterator(m, t, k)

\* runQueue(queue, iterator, cb) of the first phase, from step(index).
runPhase1(m, t, index) ==
  LET k == step(m.tr[t].queue, index) IN
  IF k > Len(m.tr[t].queue) THEN phase1Done(m, t) ELSE iterator(m, t, k)

\* The continuation runQueue hands to fn: () => step(index + 1).
continue(m, t) ==
  IF m.tr[t].phase = 1 THEN runPhase1(m, t, m.tr[t].idx + 1)
  ELSE runPhase2(m, t, m.tr[t].idx + 1)

\* confirmTransition whose same-route branch does not return.
confirmTransitionFallsThrough(m, location, isAdded) ==
  LET t == Len(m.tr) + 1
      route == match(location, isAdded, t)
      cur == RouteOf(m.tr, m.current)
      d == resolveQueue(cur.matched, route.matched)
      queue == Phase1Queue(cur.matched, route.matched, beforeHooks, instances)
      m1 == [m EXCEPT !.tr = Append(@, Transition(route, m.current, queue,
                                                  d.activated))]
      m2 == IF isSameRoute(route, cur) /\ Len(route.matched) = Len(cur.matched)
            THEN abort(Emit(m1, Event("ensureURL", t, Undefined, m1.current)), t, Undefined)
            ELSE m1
  IN runPhase1([m2 EXCEPT !.pending = t], t, 1)

\* confirmTransition(route, onComplete, onAbort) for a new transitionTo call
\* that matched `location` (lines 265-354 and 406).
confirmTransition(m, location, isAdded) ==
  LET t == Len(m.tr) + 1
      route == match(location, isAdded, t)
      cur == RouteOf(m.tr, m.current)
      d == resolveQueue(cur.matched, route.matched)
      queue == Phase1Queue(cur.matched, route.matched, beforeHooks, instances)
      m1 == [m EXCEPT !.tr = Append(@, Transition(route, m.current, queue,
                                                  d.activated))]
  IN IF isSameRoute(route, cur) /\ Len(route.matched) = Len(cur.matched)
     THEN End(abort(Emit(m1, Event("ensureURL", t, Undefined, m1.current)), t, Undefined),
              t, "noop")
     ELSE runPhase1([m1 EXCEPT !.pending = t], t, 1)

\* history.push(to): the history implementations hand the location to
\* transitionTo.
push(m, t, to) ==
  confirmTransition(Emit(m, Event("push", t, to, m.current)),
                    Location(to.path, "", EmptyMap), added)

\* history.replace(to): as push, replacing the history entry.
replace(m, t, to) ==
  confirmTransition(Emit(m, Event("replace", t, to, m.current)),
                    Location(to.path, "", EmptyMap), added)

\* poll invoking the callable whether or not the instance is there.
pollWithoutInstance(m, t, record) ==
  Emit(m, Event("postEnterCb", t, Named(record), m.current))

\* poll(cb, match.instances, key, isValid) (lines 609-622): the callable is
\* invoked with the instance; without one it waits on a timer while the
\* route is current, and is dropped otherwise.
poll(m, t, record) ==
  IF record \in instances
  THEN Emit(m, Event("postEnterCb", t, Named(record), m.current))
  ELSE IF m.current = m.tr[t].of
  THEN [m EXCEPT !.tr[t].polls = @ \cup {record}]
  ELSE m

\* postEnterCbs.forEach(cb => { cb() }) (line 426), from the k-th on.
RECURSIVE runPostEnterCbs(_, _, _)
runPostEnterCbs(m, t, k) ==
  IF k > Len(m.tr[t].postEnterCbs) THEN [m EXCEPT !.tr[t].postEnterCbs = <<>>]
  ELSE runPostEnterCbs(poll(m, t, m.tr[t].postEnterCbs[k]), t, k + 1)

\* bindEnterGuard: a callable handed to next by an enter guard is pushed on
\* the post-enter list after next returned (lines 592-605); an exception
\* that leaves next skips the push, and nothing reads the list of a
\* transition that ended without scheduling the callbacks.
deferPostEnter(m, t, guard, to) ==
  IF guard[1] = "enter" /\ to.tag = "function" /\ m.tr[t].st \in {"called", "waiting", "committed"}
  THEN [m EXCEPT !.tr[t].postEnterCbs = Append(@, guard[2])]
  ELSE m

\* The next callback with a redirect always pushed.
hookNextAlwaysPush(m, t, to) ==
  LET guard == m.tr[t].queue[m.tr[t].idx]
      m0 == [m EXCEPT !.tr[t].continued = Append(@, <<m.tr[t].phase, m.tr[t].idx>>)]
  IN IF to.tag = "false" \/ isError(to)
     THEN End(abort(Emit(m0, Event("ensureURL", t, Named("true"), m0.current)), t, to),
              t, "aborted")
     ELSE IF isRedirect(to)
     THEN push(End(abort(m0, t, Undefined), t, "redirected"), t, to)
     ELSE deferPostEnter(continue([m0 EXCEPT !.running = 0], t), t, guard, to)

\* The next callback the iterator hands to the hook (lines 374-399).
hookNext(m, t, to) ==
  LET guard == m.tr[t].queue[m.tr[t].idx]
      m0 == [m EXCEPT !.tr[t].continued = Append(@, <<m.tr[t].phase, m.tr[t].idx>>)]
  IN IF to.tag = "false" \/ isError(to)
     THEN End(abort(Emit(m0, Event("ensureURL", t, Named("true"), m0.current)), t, to),
              t, "aborted")
     ELSE IF isRedirect(to)
     THEN LET m1 == End(abort(m0, t, Undefined), t, "redirected") IN
          IF to.tag = "object" /\ to.replace THEN replace(m1, t, to)
          ELSE push(m1, t, to)
     ELSE deferPostEnter(continue([m0 EXCEPT !.running = 0], t), t, guard, to)

\* The catch of the iterator (lines 400-402).
hookThrow(m, t, e) == End(abort(m, t, e), t, "thrown")

-----------------------------------------------------------------------------
(* The state machine.                                                      *)

\* What a guard may hand to next.
RedirectValues ==
  { Val("string", <<"c">>, FALSE),
    Val("object", <<"a">>, FALSE),
    Val("object", <<"a">>, TRUE) }

ProceedValues == { Undefined, Val("function", <<>>, FALSE) }

AbortValues == { Val("false", <<>>, FALSE), Val("error", <<>>, FALSE) }

\* What a guard may throw: an Error, or a value that is not Error-like.
ThrowValues == { Val("error", <<>>, FALSE), Val("string", <<"a">>, FALSE) }

\* The hooks that get registered.
BeforeHookNames == {"b1", "b2"}
ResolveHookNames == {"r1"}
AfterHookNames == {"a1"}
ErrorCbNames == {"e1"}

Range(s) == { s[k] : k \in 1..Len(s) }

\* The state a task starts from: nothing emitted yet.
Machine ==
  [ tr |-> tr, current |-> current, pending |-> pending, ready |-> ready,
    events |-> <<>>, running |-> running,
    sync |-> FALSE,              \* the task runs inside the try of an iterator
    onCompleteThrows |-> FALSE ] \* the onComplete given to transitionTo throws

\* The state a task leaves.
Apply(m) ==
  /\ tr' = m.tr
  /\ current' = m.current
  /\ pending' = m.pending
  /\ ready' = m.ready
  /\ events' = m.events
  /\ running' = m.running

Idle == running = 0

\* The calls of entry points made so far: the transitionTo calls (those of
\* redirects and of addRoutes included) and the registrations.
Calls ==
  Len(tr) + Len(errorCbs) + Len(beforeHooks) + Len(resolveHooks)
  + Len(afterHooks) + (IF cb THEN 1 ELSE 0)

\* An entry point can be called: no guard is executing, and the bound on the
\* calls of a run allows one more.
CanCall == Idle /\ Calls < MaxCalls

\* No runQueue call and no function application is driven on its own.
NoQueue ==
  [queue |-> <<>>, st |-> "engine", idx |-> 0, started |-> <<>>,
   continued |-> {}, done |-> 0]

NoCall == [fn |-> "none", st |-> "none"]

Init ==
  /\ tr = <<>>
  /\ current = StartId
  /\ pending = NoRoute
  /\ ready = FALSE
  /\ errorCbs = <<>>
  /\ cb = FALSE
  /\ beforeHooks = <<>>
  /\ resolveHooks = <<>>
  /\ afterHooks = <<>>
  /\ added = FALSE
  /\ instances = {}
  /\ running = 0
  /\ events = <<>>
  /\ rq = NoQueue
  /\ call = NoCall

\* history.listen(cb)
Listen ==
  /\ CanCall /\ ~cb
  /\ cb' = TRUE
  /\ events' = <<>>
  /\ UNCHANGED <<tr, current, pending, ready, errorCbs, beforeHooks, resolveHooks,
                 afterHooks, added, instances, running, rq, call>>

\* history.onError(errorCb)
OnError ==
  /\ CanCall
  /\ \E fn \in ErrorCbNames \ Range(errorCbs) :
       errorCbs' = Append(errorCbs, fn)
  /\ events' = <<>>
  /\ UNCHANGED <<tr, current, pending, ready, cb, beforeHooks, resolveHooks,
                 afterHooks, added, instances, running, rq, call>>

\* router.beforeEach(fn): registerHook(this.beforeHooks, fn)
BeforeEach ==
  /\ CanCall
  /\ \E fn \in BeforeHookNames \ Range(beforeHooks) :
       beforeHooks' = Append(beforeHooks, fn)
  /\ events' = <<>>
  /\ UNCHANGED <<tr, current, pending, ready, errorCbs, cb, resolveHooks,
                 afterHooks, added, instances, running, rq, call>>

\* router.beforeResolve(fn)
BeforeResolve ==
  /\ CanCall
  /\ \E fn \in ResolveHookNames \ Range(resolveHooks) :
       resolveHooks' = Append(resolveHooks, fn)
  /\ events' = <<>>
  /\ UNCHANGED <<tr, current, pending, ready, errorCbs, cb, beforeHooks,
                 afterHooks, added, instances, running, rq, call>>

\* router.afterEach(fn)
AfterEach ==
  /\ CanCall
  /\ \E fn \in AfterHookNames \ Range(afterHooks) :
       afterHooks' = Append(afterHooks, fn)
  /\ events' = <<>>
  /\ UNCHANGED <<tr, current, pending, ready, errorCbs, cb, beforeHooks,
                 resolveHooks, added, instances, running, rq, call>>

\* The views of the current route have rendered: their instances are
\* registered on the matched records.
Render ==
  /\ Idle
  /\ instances # Range(RouteOf(tr, current).matched)
  /\ instances' = Range(RouteOf(tr, current).matched)
  /\ events' = <<>>
  /\ UNCHANGED <<tr, current, pending, ready, errorCbs, cb, beforeHooks,
                 resolveHooks, afterHooks, added, running, rq, call>>

\* history.transitionTo(location, onComplete, onAbort)
TransitionTo ==
  /\ CanCall
  /\ \E location \in Locations :
       Apply(confirmTransition(Machine, location, added))
  /\ UNCHANGED <<errorCbs, cb, beforeHooks, resolveHooks, afterHooks, added,
                 instances, rq, call>>

\* history.transitionTo(location) for a location on which router.match
\* throws: the call of match (line 268) is outside every try, so the
\* exception leaves transitionTo before anything else has run.  t = 0 in the
\* call recorded: there is no closure yet.
TransitionToMatchThrows ==
  /\ CanCall
  /\ events' = <<Event("uncaught", 0, Val("error", <<>>, FALSE), current)>>
  /\ UNCHANGED <<tr, current, pending, ready, errorCbs, cb, beforeHooks,
                 resolveHooks, afterHooks, added, instances, running, rq, call>>

\* router.addRoutes(routes): the table grows, and the current location is
\* entered again unless current is START (lines 869-875).
AddRoutes ==
  /\ Idle /\ ~added
  /\ current # StartId => Calls < MaxCalls
  /\ added' = TRUE
  /\ IF current # StartId
     THEN LET cur == RouteOf(tr, current) IN
          Apply(confirmTransition(Machine, Location(cur.path, cur.hash, cur.query),
                                  TRUE))
     ELSE Apply(Machine)
  /\ UNCHANGED <<errorCbs, cb, beforeHooks, resolveHooks, afterHooks, instances, rq, call>>

\* The guard that is executing, or one that is waiting, of transition t.
canNext(t) ==
  \/ running = t /\ tr[t].st = "called"
  \/ Idle /\ tr[t].st = "waiting"

\* The values the guard at the cursor of t may hand to next.  The lazy view
\* resolution step only proceeds or fails; a redirect starts a transition,
\* which the bound on transitionTo calls must allow.
NextValues(t) ==
  IF tr[t].queue[tr[t].idx][1] = "async"
  THEN { Undefined, Val("error", <<>>, FALSE) }
  ELSE ProceedValues \cup AbortValues
       \cup (IF Calls < MaxCalls THEN RedirectValues ELSE {})

\* A guard of t calls next(to), synchronously or after it had returned.
GuardNext ==
  /\ \E t \in 1..Len(tr) :
       /\ canNext(t)
       /\ \E to \in NextValues(t), throws \in BOOLEAN :
            Apply(hookNext([Machine EXCEPT !.sync = (running = t),
                                           !.onCompleteThrows = throws], t, to))
  /\ UNCHANGED <<errorCbs, cb, beforeHooks, resolveHooks, afterHooks, added,
                 instances, rq, call>>

\* The executing guard returns without having called next.
GuardReturn ==
  /\ \E t \in 1..Len(tr) :
       /\ running = t /\ tr[t].st = "called"
       /\ Apply([Machine EXCEPT !.tr[t].st = "waiting", !.running = 0])
  /\ UNCHANGED <<errorCbs, cb, beforeHooks, resolveHooks, afterHooks, added,
                 instances, rq, call>>

\* The executing guard throws before having called next.
GuardThrow ==
  /\ \E t \in 1..Len(tr) :
       /\ running = t /\ tr[t].st = "called"
       /\ tr[t].queue[tr[t].idx][1] # "async"
       /\ \E e \in ThrowValues : Apply(hookThrow(Machine, t, e))
  /\ UNCHANGED <<errorCbs, cb, beforeHooks, resolveHooks, afterHooks, added,
                 instances, rq, call>>

\* The tick after the commit of t: the post-enter callbacks run.
NextTick ==
  /\ Idle
  /\ \E t \in 1..Len(tr) :
       /\ tr[t].st = "committed" /\ tr[t].postEnterCbs # <<>>
       /\ Apply(runPostEnterCbs(Machine, t, 1))
  /\ UNCHANGED <<errorCbs, cb, beforeHooks, resolveHooks, afterHooks, added,
                 instances, rq, call>>

\* The timer of poll fires for the callable of a record.
PollTimer ==
  /\ Idle
  /\ \E t \in 1..Len(tr) : \E record \in tr[t].polls :
       Apply(poll([Machine EXCEPT !.tr[t].polls = @ \ {record}], t, record))
  /\ UNCHANGED <<errorCbs, cb, beforeHooks, resolveHooks, afterHooks, added,
                 instances, rq, call>>

\* The states of a closure that can still run.
Live == {"called", "waiting"}

Next ==
  \/ Listen
  \/ OnError
  \/ BeforeEach
  \/ BeforeResolve
  \/ AfterEach
  \/ Render
  \/ TransitionTo
  \/ TransitionToMatchThrows
  \/ AddRoutes
  \/ GuardNext
  \/ GuardReturn
  \/ GuardThrow
  \/ NextTick
  \/ PollTimer

Spec == Init /\ [][Next]_vars

\* The engine once a global before-hook, a resolve hook or both have been
\* registered, with every guard eventually invoking its continuation: a
\* guard that is executing or waiting does not stay so for ever.
InitLive ==
  /\ tr = <<>>
  /\ current = StartId
  /\ pending = NoRoute
  /\ ready = FALSE
  /\ errorCbs = <<>>
  /\ cb = FALSE
  /\ beforeHooks \in { <<>>, <<"b1">> }
  /\ resolveHooks \in { <<>>, <<"r1">> }
  /\ afterHooks = <<>>
  /\ added = FALSE
  /\ instances = {}
  /\ running = 0
  /\ events = <<>>
  /\ rq = NoQueue
  /\ call = NoCall
  /\ beforeHooks # <<>> \/ resolveHooks # <<>>

\* A guard of t calls next(to) and keeps the callback to call it a second
\* time: from here on two continuations of the same transitionTo call are
\* held, the second as the closure of a guard that is waiting at the same
\* place in the queue (its counts of onComplete and onAbort are those of the
\* calls made along it).
GuardNextKeepingNext ==
  /\ Calls < MaxCalls
  /\ \E t \in 1..Len(tr) :
       /\ canNext(t)
       /\ \E to \in ProceedValues \cup AbortValues, throws \in BOOLEAN :
            LET kept == [tr[t] EXCEPT !.st = "waiting", !.nComplete = 0,
                                      !.nAbort = 0, !.polls = {}]
            IN Apply(hookNext([Machine EXCEPT !.tr = Append(@, kept),
                                              !.sync = (running = t),
                                              !.onCompleteThrows = throws], t, to))
  /\ UNCHANGED <<errorCbs, cb, beforeHooks, resolveHooks, afterHooks, added,
                 instances, rq, call>>

NextTwice ==
  \/ Listen
  \/ OnError
  \/ BeforeEach
  \/ BeforeResolve
  \/ AfterEach
  \/ Render
  \/ TransitionTo
  \/ TransitionToMatchThrows
  \/ AddRoutes
  \/ GuardNext
  \/ GuardNextKeepingNext
  \/ GuardReturn
  \/ GuardThrow
  \/ NextTick
  \/ PollTimer

\* The engine with guards that may invoke their continuation twice.
SpecTwice == Init /\ [][NextTwice]_vars

SpecLive == InitLive /\ [][Next]_vars /\ WF_vars(GuardNext)

-----------------------------------------------------------------------------
(* runQueue on its own: runQueue(queue, fn, cb) where fn(item, next) lets  *)
(* the item run and the item invokes next later, at most once, or never.   *)

QueueItems == { Guard("item", ""), Null }

RECURSIVE SeqsUpTo(_, _)
SeqsUpTo(S, n) ==
  IF n = 0 THEN { <<>> }
  ELSE LET shorter == SeqsUpTo(S, n - 1) IN
       shorter \cup { Append(q, x) : q \in { r \in shorter : Len(r) = n - 1 }, x \in S }

InitRQ ==
  /\ tr = <<>>
  /\ current = StartId
  /\ pending = NoRoute
  /\ ready = FALSE
  /\ errorCbs = <<>>
  /\ cb = FALSE
  /\ beforeHooks = <<>>
  /\ resolveHooks = <<>>
  /\ afterHooks = <<>>
  /\ added = FALSE
  /\ instances = {}
  /\ running = 0
  /\ events = <<>>
  /\ \E queue \in SeqsUpTo(QueueItems, MaxQueueLen) :
       rq = [queue |-> queue, st |-> "new", idx |-> 0, started |-> <<>>,
             continued |-> {}, done |-> 0]
  /\ call = NoCall

\* step(index) as runQueue runs it: cb is called, or fn on the item found.
rqStep(r, index) ==
  LET k == step(r.queue, index) IN
  IF k > Len(r.queue)
  THEN [r EXCEPT !.st = "finished", !.idx = 0, !.done = @ + 1]
  ELSE [r EXCEPT !.st = "waiting", !.idx = k, !.started = Append(@, k)]

\* runQueue(queue, fn, cb): step(0).
RQRun ==
  /\ rq.st = "new"
  /\ rq' = rqStep(rq, 1)
  /\ UNCHANGED <<engineVars, call>>

\* The item fn was called on invokes its continuation: step(index + 1).
RQNext ==
  /\ rq.st = "waiting"
  /\ rq' = rqStep([rq EXCEPT !.continued = @ \cup {rq.idx}], rq.idx + 1)
  /\ UNCHANGED <<engineVars, call>>

NextRQ == RQRun \/ RQNext

SpecRQ == InitRQ /\ [][NextRQ]_vars

-----------------------------------------------------------------------------
(* The query codec (util/query.js).  A string is a sequence of characters; *)
(* a query object is a sequence of <<key, value>> entries in insertion     *)
(* order, with distinct keys.                                              *)

\* The values of a query object: a string, null, or an array of those.
QString(str) == [t |-> "string", str |-> str, items |-> <<>>]
QNull == [t |-> "null", str |-> <<>>, items |-> <<>>]
QArray(items) == [t |-> "array", str |-> <<>>, items |-> items]

RECURSIVE concat(_)
concat(strs) == IF strs = <<>> THEN <<>> ELSE Head(strs) \o concat(Tail(strs))

\* Array.prototype.join
RECURSIVE join(_, _)
join(strs, sep) ==
  IF strs = <<>> THEN <<>>
  ELSE IF Len(strs) = 1 THEN strs[1]
  ELSE strs[1] \o sep \o join(Tail(strs), sep)

\* String.prototype.split with a separator of one character
RECURSIVE split(_, _)
split(str, sep) ==
  IF \A k \in 1..Len(str) : str[k] # sep THEN <<str>>
  ELSE LET k == CHOOSE j \in 1..Len(str) :
                  str[j] = sep /\ \A h \in 1..(j - 1) : str[h] # sep
       IN <<SubSeq(str, 1, k - 1)>> \o split(SubSeq(str, k + 1, Len(str)), sep)

\* String.prototype.replace with a global pattern that matches pat literally
RECURSIVE replaceAll(_, _, _)
replaceAll(str, pat, by) ==
  IF Len(str) < Len(pat) THEN str
  ELSE IF SubSeq(str, 1, Len(pat)) = pat
  THEN by \o replaceAll(SubSeq(str, Len(pat) + 1, Len(str)), pat, by)
  ELSE <<str[1]>> \o replaceAll(Tail(str), pat, by)

\* String.prototype.trim
RECURSIVE trim(_)
trim(str) ==
  IF str = <<>> THEN str
  ELSE IF str[1] = " " THEN trim(Tail(str))
  ELSE IF str[Len(str)] = " " THEN trim(SubSeq(str, 1, Len(str) - 1))
  ELSE str

\* The characters encodeURIComponent leaves alone, of those that occur.
Unescaped == { "a", "b", "0", "1", "2", "3", "5", "6", "B", "C", "D", "!" }

\* The two hexadecimal digits of the characters that are escaped.
CharCode ==
  [ c \in { "&", "=", "+", " ", ",", "%", "!", "?", "#" } |->
      CASE c = "&" -> <<"2", "6">>
        [] c = "=" -> <<"3", "D">>
        [] c = "+" -> <<"2", "B">>
        [] c = " " -> <<"2", "0">>
        [] c = "," -> <<"2", "C">>
        [] c = "%" -> <<"2", "5">>
        [] c = "!" -> <<"2", "1">>
        [] c = "?" -> <<"3", "F">>
        [] c = "#" -> <<"2", "3">> ]

encodeURIComponent(str) ==
  concat([ k \in 1..Len(str) |->
             IF str[k] \in Unescaped THEN <<str[k]>> ELSE <<"%">> \o CharCode[str[k]] ])

\* str.replace(encodeReserveRE, encodeReserveReplacer)
encodeReserve(str) ==
  concat([ k \in 1..Len(str) |->
             IF str[k] = "!" THEN <<"%">> \o CharCode["!"] ELSE <<str[k]>> ])

encode(str) ==
  replaceAll(encodeReserve(encodeURIComponent(str)), <<"%", "2", "C">>, <<",">>)

\* decodeURIComponent: the string, or a URIError for a malformed escape.
URIError == <<"URIError">>

RECURSIVE decode(_)
decode(str) ==
  IF str = <<>> THEN <<>>
  ELSE IF str[1] # "%"
  THEN LET rest == decode(Tail(str)) IN
       IF rest = URIError THEN URIError ELSE <<str[1]>> \o rest
  ELSE IF Len(str) < 3 \/ \A c \in DOMAIN CharCode : CharCode[c] # SubSeq(str, 2, 3)
  THEN URIError
  ELSE LET rest == decode(SubSeq(str, 4, Len(str))) IN
       IF rest = URIError THEN URIError
       ELSE <<CHOOSE c \in DOMAIN CharCode : CharCode[c] = SubSeq(str, 2, 3)>> \o rest

\* The keys of a query object, in order.
keysOf(obj) == [ k \in 1..Len(obj) |-> obj[k][1] ]

\* res[key] = val
setKey(res, key, val) ==
  IF \E k \in 1..Len(res) : res[k][1] = key
  THEN [ k \in 1..Len(res) |-> IF res[k][1] = key THEN <<key, val>> ELSE res[k] ]
  ELSE Append(res, <<key, val>>)

\* What parseQuery returns or throws.
Returned(res) == [threw |-> FALSE, res |-> res]
Thrown == [threw |-> TRUE, res |-> <<>>]

\* The body of parseQuery's forEach, applied to the parameters from the
\* left; a URIError thrown by decode ends the call.
RECURSIVE parseParams(_, _)
parseParams(params, res) ==
  IF params = <<>> THEN Returned(res)
  ELSE
    LET parts == split(replaceAll(Head(params), <<"+">>, <<" ">>), "=")
        key == decode(Head(parts))
        str == IF Len(parts) > 1 THEN decode(join(Tail(parts), <<"=">>)) ELSE <<>>
        val == IF Len(parts) > 1 THEN QString(str) ELSE QNull
    IN IF key = URIError \/ str = URIError THEN Thrown
       ELSE IF \A k \in 1..Len(res) : res[k][1] # key
       THEN parseParams(Tail(params), setKey(res, key, val))
       ELSE LET old == res[CHOOSE k \in 1..Len(res) : res[k][1] = key][2] IN
            IF old.t = "array"
            THEN parseParams(Tail(params), setKey(res, key, QArray(Append(old.items, val))))
            ELSE parseParams(Tail(params), setKey(res, key, QArray(<<old, val>>)))

parseQuery(query) ==
  LET trimmed == trim(query)
      q == IF trimmed # <<>> /\ trimmed[1] \in {"?", "#", "&"}
           THEN Tail(trimmed) ELSE trimmed
  IN IF q = <<>> THEN Returned(<<>>)
     ELSE parseParams(split(q, "&"), <<>>)

\* What stringifyQuery makes of one item of an array value.
stringifyItem(key, item) ==
  IF item.t = "null" THEN encode(key)
  ELSE encode(key) \o <<"=">> \o encode(item.str)

\* What stringifyQuery makes of one key.
stringifyKey(key, val) ==
  IF val.t = "null" THEN encode(key)
  ELSE IF val.t = "array"
  THEN join([ k \in 1..Len(val.items) |-> stringifyItem(key, val.items[k]) ], <<"&">>)
  ELSE encode(key) \o <<"=">> \o encode(val.str)

stringifyQuery(obj) ==
  LET res == join(SelectSeq([ k \in 1..Len(obj) |-> stringifyKey(obj[k][1], obj[k][2]) ],
                            LAMBDA x : Len(x) > 0), <<"&">>)
  IN IF res # <<>> THEN <<"?">> \o res ELSE <<>>

\* Value equality of two query objects: the same keys, and for every key
\* the same value of the same shape.
sameQuery(m1, m2) ==
  /\ Range(keysOf(m1)) = Range(keysOf(m2))
  /\ \A i \in 1..Len(m1), j \in 1..Len(m2) : m1[i][1] = m2[j][1] => m1[i][2] = m2[j][2]

-----------------------------------------------------------------------------
(* normalizeLocation (util/location.js).  Strings are sequences of         *)
(* characters, objects of string keys are sequences of <<key, value>>.     *)

\* str.indexOf(c), counted from 1; 0 when c does not occur.
indexOf(str, c) ==
  IF \A k \in 1..Len(str) : str[k] # c THEN 0
  ELSE CHOOSE k \in 1..Len(str) : str[k] = c /\ \A h \in 1..(k - 1) : str[h] # c

\* parsePath: cuts the hash off at the first # (kept), then the query off
\* at the first ? (dropped).
parsePath(path) ==
  LET hashIndex == indexOf(path, "#")
      hash == IF hashIndex > 0 THEN SubSeq(path, hashIndex, Len(path)) ELSE <<>>
      path1 == IF hashIndex > 0 THEN SubSeq(path, 1, hashIndex - 1) ELSE path
      queryIndex == indexOf(path1, "?")
      query == IF queryIndex > 0 THEN SubSeq(path1, queryIndex + 1, Len(path1)) ELSE <<>>
      path2 == IF queryIndex > 0 THEN SubSeq(path1, 1, queryIndex - 1) ELSE path1
  IN [path |-> path2, query |-> query, hash |-> hash]

\* The loop of resolvePath over the segments of the relative path.
RECURSIVE resolveSegments(_, _)
resolveSegments(stack, segments) ==
  IF segments = <<>> THEN stack
  ELSE IF Head(segments) = <<".", ".">>
  THEN resolveSegments(IF stack = <<>> THEN stack ELSE SubSeq(stack, 1, Len(stack) - 1),
                       Tail(segments))
  ELSE IF Head(segments) = <<".">> THEN resolveSegments(stack, Tail(segments))
  ELSE resolveSegments(Append(stack, Head(segments)), Tail(segments))

\* resolvePath(relative, base, append), relative not empty.
resolvePath(relative, base, append) ==
  IF relative[1] = "/" THEN relative
  ELSE IF relative[1] \in {"?", "#"} THEN base \o relative
  ELSE
    LET stack == split(base, "/")
        popped == IF ~append \/ stack[Len(stack)] = <<>>
                  THEN SubSeq(stack, 1, Len(stack) - 1) ELSE stack
        resolved == resolveSegments(popped, split(relative, "/"))
        rooted == IF resolved = <<>> \/ resolved[1] # <<>>
                  THEN <<<<>>>> \o resolved ELSE resolved
    IN join(rooted, <<"/">>)

\* assign(a, b): every key of b set on a.
RECURSIVE assign(_, _)
assign(a, b) ==
  IF b = <<>> THEN a
  ELSE assign(setKey(a, b[1][1], b[1][2]), Tail(b))

\* fillParams for a path template without parameters: the template.
fillParams(path, params) == path

\* The parser resolveQuery calls: parseQuery, or the one of the router's
\* options, which here returns one fixed object or throws.
parse(parser, query) ==
  CASE parser = "parseQuery" -> parseQuery(query)
    [] parser = "fixed" -> Returned(<< <<<<"b">>, QString(<<"p">>)>> >>)
    [] parser = "throws" -> Thrown

\* resolveQuery with the parsed query winning over extraQuery.
resolveQueryParsedWins(query, extraQuery, parser) ==
  LET parsed == parse(parser, query)
      parsedQuery == IF parsed.threw THEN <<>> ELSE parsed.res
  IN assign(extraQuery, parsedQuery)

resolveQuery(query, extraQuery, parser) ==
  LET parsed == parse(parser, query)
      parsedQuery == IF parsed.threw THEN <<>> ELSE parsed.res
  IN assign(parsedQuery, extraQuery)

\* A raw location as an object; an absent string is empty, an absent query
\* is {}, hasParams tells whether params is there at all.
RawLocation(name, normalized, path, hasParams, params, query, hash, append) ==
  [ name |-> name, normalized |-> normalized, path |-> path,
    hasParams |-> hasParams, params |-> params, query |-> query,
    hash |-> hash, append |-> append ]

\* What normalizeLocation reads of the current route; matched is the path
\* of the last matched record, empty when nothing is matched.
CurrentRoute(isThere, name, path, params, matched) ==
  [ isThere |-> isThere, name |-> name, path |-> path, params |-> params,
    matched |-> matched ]

normalizeLocation(next, cur, parser) ==
  IF next.name # <<>> \/ next.normalized THEN next
  ELSE IF next.path = <<>> /\ next.hasParams /\ cur.isThere
  THEN
    LET params == assign(assign(<<>>, cur.params), next.params)
        next1 == [next EXCEPT !.normalized = TRUE]
    IN IF cur.name # <<>>
       THEN [next1 EXCEPT !.name = cur.name, !.params = params]
       ELSE IF cur.matched # <<>>
       THEN [next1 EXCEPT !.path = fillParams(cur.matched, params)]
       ELSE next1
  ELSE
    LET parsedPath == parsePath(next.path)
        basePath == IF cur.isThere /\ cur.path # <<>> THEN cur.path ELSE <<"/">>
        path == IF parsedPath.path # <<>>
                THEN resolvePath(parsedPath.path, basePath, next.append)
                ELSE basePath
        query == resolveQuery(parsedPath.query, next.query, parser)
        hash0 == IF next.hash # <<>> THEN next.hash ELSE parsedPath.hash
        hash == IF hash0 # <<>> /\ hash0[1] # "#" THEN <<"#">> \o hash0 ELSE hash0
    IN RawLocation(<<>>, TRUE, path, FALSE, <<>>, query, hash, FALSE)

-----------------------------------------------------------------------------
(* The pure functions on their own: call holds the function, its arguments *)
(* and, once applied, its result.                                          *)

\* The chains handed to resolveQueue.
Chains == SeqsUpTo(Records, MaxChainLen)

\* The Route objects handed to isSameRoute: START, and two objects for each
\* of the locations /, /a and /a/ with and without a hash and a query.
TestLocations ==
  { Location(path, hash, query) :
      path \in { <<"">>, <<"a">>, <<"a", "">> },
      hash \in { "", "h" },
      query \in { EmptyMap, [k \in {"q"} |-> "1"] } }

TestRoutes ==
  {START} \cup { match(location, FALSE, id) : location \in TestLocations, id \in {1, 2} }

\* The strings that occur as keys and as values of a query: the empty
\* string, one character of each kind the codec treats on its own, and two
\* strings of two characters.
StrChars == { "a", "&", "=", "+", " ", "!", ",", "%" }

Strings == {<<>>} \cup { <<c>> : c \in StrChars } \cup { <<"a", "b">>, <<"a", "=">> }

Atoms == { QString(str) : str \in Strings } \cup {QNull}

Values == Atoms \cup { QArray(items) : items \in SeqsUpTo(Atoms, MaxArrayLen) }

\* The values given to the keys of a query of several keys.
PlainValues == { QString(<<"a">>), QNull, QArray(<<>>) }

\* The query objects handed to stringifyQuery: one key with any value, or up
\* to MaxKeys distinct keys with plain values.
Queries ==
  { <<entry>> : entry \in Strings \X Values }
    \cup { obj \in SeqsUpTo(Strings \X PlainValues, MaxKeys) :
             \A i, j \in 1..Len(obj) : obj[i][1] = obj[j][1] => i = j }

\* The raw locations handed to normalizeLocation.  The paths: none, /a,
\* /a?a=b, /a?a=b&b=a#h, ?a=b, the relative b?a=% (a malformed escape),
\* #h, ../c and /a?a=b&a=a.
RawPaths ==
  { <<>>,
    <<"/", "a">>,
    <<"/", "a", "?", "a", "=", "b">>,
    <<"/", "a", "?", "a", "=", "b", "&", "b", "=", "a", "#", "h">>,
    <<"?", "a", "=", "b">>,
    <<"b", "?", "a", "=", "%">>,
    <<"#", "h">>,
    <<".", ".", "/", "c">>,
    <<"/", "a", "?", "a", "=", "b", "&", "a", "=", "a">> }

RawQueries ==
  { <<>>,
    << <<<<"a">>, QString(<<"c">>)>> >>,
    << <<<<"b">>, QNull>>, <<<<"c">>, QString(<<"a">>)>> >>,
    << <<<<"a">>, QArray(<<QString(<<"a">>), QString(<<"b">>)>>)>> >> }

RawHashes == { <<>>, <<"h">>, <<"#", "h">> }

RawParams == { <<>>, << <<<<"p">>, <<"1">>>> >> }

RawLocations ==
  { RawLocation(name, normalized, path, hasParams, params, query, hash, append) :
      name \in { <<>>, <<"c">> }, normalized \in BOOLEAN, path \in RawPaths,
      hasParams \in BOOLEAN, params \in RawParams, query \in RawQueries,
      hash \in RawHashes, append \in BOOLEAN }

\* The current routes handed to normalizeLocation: none, START, the named
\* route /c and the route /a/b matched without a name.
CurrentRoutes ==
  { CurrentRoute(FALSE, <<>>, <<>>, <<>>, <<>>),
    CurrentRoute(TRUE, <<>>, <<"/">>, <<>>, <<>>),
    CurrentRoute(TRUE, <<"c">>, <<"/", "c">>, << <<<<"q">>, <<"2">>>> >>, <<"/", "c">>),
    CurrentRoute(TRUE, <<>>, <<"/", "a", "/", "b">>, <<>>, <<"/", "a", "/", "b">>) }

Parsers == { "parseQuery", "fixed", "throws" }

Input(fn, args) == [fn |-> fn, st |-> "input", args |-> args, out |-> "none"]

InitFn ==
  /\ tr = <<>>
  /\ current = StartId
  /\ pending = NoRoute
  /\ ready = FALSE
  /\ errorCbs = <<>>
  /\ cb = FALSE
  /\ beforeHooks = <<>>
  /\ resolveHooks = <<>>
  /\ afterHooks = <<>>
  /\ added = FALSE
  /\ instances = {}
  /\ running = 0
  /\ events = <<>>
  /\ rq = NoQueue
  /\ \/ \E cur \in Chains, next \in Chains :
          call = Input("resolveQueue", <<cur, next>>)
     \/ \E a \in TestRoutes, b \in TestRoutes :
          call = Input("isSameRoute", <<a, b>>)
     \/ \E obj \in Queries :
          call = Input("stringifyQuery", <<obj>>)
     \/ \E raw \in RawLocations, cur \in CurrentRoutes, parser \in Parsers :
          /\ raw.hasParams \/ raw.params = <<>>
          /\ call = Input("normalizeLocation", <<raw, cur, parser>>)

\* resolveQueue(current, next)
ResolveQueueCall ==
  /\ call.fn = "resolveQueue" /\ call.st = "input"
  /\ call' = [call EXCEPT !.st = "done",
                          !.out = resolveQueue(call.args[1], call.args[2])]
  /\ UNCHANGED <<engineVars, rq>>

\* isSameRoute(a, b)
IsSameRouteCall ==
  /\ call.fn = "isSameRoute" /\ call.st = "input"
  /\ call' = [call EXCEPT !.st = "done",
                          !.out = isSameRoute(call.args[1], call.args[2])]
  /\ UNCHANGED <<engineVars, rq>>

\* stringifyQuery(obj)
StringifyQueryCall ==
  /\ call.fn = "stringifyQuery" /\ call.st = "input"
  /\ call' = [call EXCEPT !.st = "done", !.out = stringifyQuery(call.args[1])]
  /\ UNCHANGED <<engineVars, rq>>

\* parseQuery(query), of the string stringifyQuery returned for from
ParseQueryCall ==
  /\ call.fn = "stringifyQuery" /\ call.st = "done"
  /\ call' = [fn |-> "parseQuery", st |-> "done", args |-> <<call.out>>,
              out |-> parseQuery(call.out), from |-> call.args[1]]
  /\ UNCHANGED <<engineVars, rq>>

\* normalizeLocation(raw, current, append, router)
NormalizeLocationCall ==
  /\ call.fn = "normalizeLocation" /\ call.st = "input"
  /\ call' = [call EXCEPT !.st = "done",
                          !.out = normalizeLocation(call.args[1], call.args[2], call.args[3])]
  /\ UNCHANGED <<engineVars, rq>>

NextFn ==
  \/ NormalizeLocationCall
  \/ ResolveQueueCall
  \/ IsSameRouteCall
  \/ StringifyQueryCall
  \/ ParseQueryCall

SpecFn == InitFn /\ [][NextFn]_vars

-----------------------------------------------------------------------------
(* Claims about runQueue, under SpecRQ.                                    *)

\* The indices of the items of rq.queue that are present.
RQPresent == { k \in 1..Len(rq.queue) : rq.queue[k] # Null }

\* C6: runQueue runs the items in index order, an item is started only when
\* every present item before it has been started and has invoked its
\* continuation, and while the item fn was last called on has not invoked
\* its continuation no later item is started and done is not invoked.
C6_RunQueueSequential ==
  /\ \A i \in 1..Len(rq.started) :
       /\ i > 1 => rq.started[i - 1] < rq.started[i]
       /\ \A k \in RQPresent :
            k < rq.started[i] =>
              /\ k \in rq.continued
              /\ \E j \in 1..(i - 1) : rq.started[j] = k
  /\ rq.st = "waiting" =>
       /\ rq.idx \notin rq.continued
       /\ rq.started[Len(rq.started)] = rq.idx
       /\ rq.done = 0

\* C6 witness: the second of three present items is waiting, the third has
\* not been started.
C6_Witness ==
  /\ rq.st = "waiting"
  /\ Len(rq.started) = 2
  /\ \E k \in RQPresent : k > rq.idx

\* C7: done is invoked at most once; it has been invoked exactly when
\* runQueue was called and every present item has invoked its continuation
\* (at once for a queue without present items); fn is never called on an
\* absent item.
C7_RunQueueDone ==
  /\ rq.done \in {0, 1}
  /\ rq.done = 1 <=> (rq.st # "new" /\ RQPresent \subseteq rq.continued)
  /\ \A i \in 1..Len(rq.started) : rq.started[i] \in RQPresent
  /\ rq.continued \subseteq RQPresent

\* C7 witness: done was invoked for a queue with an absent item between
\* two present ones.
C7_Witness ==
  /\ rq.done = 1
  /\ \E i, j, k \in 1..Len(rq.queue) :
       /\ i < j /\ j < k
       /\ rq.queue[i] # Null /\ rq.queue[j] = Null /\ rq.queue[k] # Null

\* C7 witness of the empty queue: done is invoked by the call itself.
C7_WitnessEmpty == rq.queue = <<>> /\ rq.done = 1

-----------------------------------------------------------------------------
(* Claims about the engine, under Spec.                                    *)

Transitions == 1..Len(tr)

\* The statuses of a closure that ended without committing.
Abandoned == {"noop", "aborted", "thrown", "redirected", "cancelled"}

\* The statuses of a closure that ended by setting current to its route.
Committed == {"committed", "escaped"}

\* A transitionTo call was made after that of t while t was in flight.
CalledAfter(t) == tr[t].st \in Live /\ Len(tr) > t

\* A transitionTo call made after that of t passed the same-route check (and
\* so set pending to its route) while t was in flight.
SupersededBy(t) ==
  /\ tr[t].st \in Live
  /\ \E u \in (t + 1)..Len(tr) : tr[u].st # "noop"

\* C1 as stated: once transitionTo has been called while t is in flight,
\* whatever route the call resolved to, no step commits t.
C1_AnyLaterCallCancels ==
  [][\A t \in Transitions :
       CalledAfter(t) => (tr'[t].st \notin Committed /\ current' # t)]_vars

\* C1 amended: once a later transitionTo call has passed the same-route check
\* while t is in flight, no step commits t, and a step that changes current
\* sets it to the route of a later call.
C1_LaterCallCancels ==
  [][\A t \in Transitions :
       SupersededBy(t) =>
         /\ tr'[t].st \notin Committed
         /\ current' # t
         /\ current' # current => current' > t]_vars

\* C1 witness: a transition found itself superseded and ended, and a later
\* one committed.
C1_Witness ==
  \E t, u \in Transitions :
    /\ t < u
    /\ tr[t].st = "cancelled"
    /\ tr[u].st = "committed" /\ current = u

\* C2 as stated: once pending is no longer the route of a transition in
\* flight, no step invokes the onComplete or the onAbort given to its
\* transitionTo call.
C2_SupersededInvokesNothing ==
  [][\A t \in Transitions :
       (tr[t].st \in Live /\ pending # t) =>
         /\ tr'[t].nAbort = tr[t].nAbort
         /\ tr'[t].nComplete = tr[t].nComplete]_vars

\* A step in which a guard of t ends t by next(false), next(error) or a throw.
AbortStep(t) == tr[t].st \in Live /\ tr'[t].st \in {"aborted", "thrown"}

CommonPrefix(cm, nm) ==
  CHOOSE i \in 0..Len(cm) :
    /\ i <= Len(nm)
    /\ \A j \in 1..i : cm[j] = nm[j]
    /\ (i < Len(cm) /\ i < Len(nm)) => cm[i + 1] # nm[i + 1]

\* The item a record contributes for a guard its instance is bound to.
BoundItem(kind, name, record, inst) ==
  IF extractGuard(record, name) /\ record \in inst
  THEN <<kind, record>> ELSE Null

\* q is the phase-1 queue in the order stated for a transition from a route
\* matching cm to one matching nm: the leave guards of the records of cm past
\* the common prefix, last record first; the before-hooks as registered; the
\* update guards of the common prefix, first record first; the beforeEnter
\* guards of the records of nm past the common prefix, first record first;
\* the view resolution step.
InStatedOrder(q, cm, nm, before, inst) ==
  LET i == CommonPrefix(cm, nm)
      nLeave == Len(cm) - i
      nBefore == Len(before)
      nEnter == Len(nm) - i
  IN /\ Len(q) = nLeave + nBefore + i + nEnter + 1
     /\ \A j \in 1..nLeave :
          q[j] = BoundItem("leave", "beforeRouteLeave", cm[Len(cm) + 1 - j], inst)
     /\ \A j \in 1..nBefore : q[nLeave + j] = <<"before", before[j]>>
     /\ \A j \in 1..i :
          q[nLeave + nBefore + j] =
            BoundItem("update", "beforeRouteUpdate", nm[j], inst)
     /\ \A j \in 1..nEnter :
          q[nLeave + nBefore + i + j] =
            IF hasBeforeEnter(nm[i + j]) THEN <<"beforeEnter", nm[i + j]>> ELSE Null
     /\ q[Len(q)][1] = "async"

\* The index of the n-th present item of q.
NthPresent(q, n) ==
  CHOOSE k \in 1..Len(q) :
    q[k] # Null /\ Cardinality({ j \in 1..k : q[j] # Null }) = n

\* C4: a transitionTo call that is not a same-route no-op builds its phase-1
\* queue in the stated order from the chains of current and of its route, the
\* before-hooks registered and the instances rendered at the call; the queue
\* is not changed afterwards, and the n-th guard the transition invokes is
\* the n-th present item of that queue.
C4_Phase1Order ==
  [][\A t \in 1..Len(tr') :
       tr'[t].st \in Live =>
         /\ t > Len(tr) =>
              InStatedOrder(tr'[t].queue1, RouteOf(tr, current).matched,
                            tr'[t].route.matched, beforeHooks, instances)
         /\ t <= Len(tr) => tr'[t].queue1 = tr[t].queue1
         /\ \A n \in 1..Len(tr'[t].started) :
              tr'[t].started[n][1] = 1 =>
                tr'[t].started[n][2] = NthPresent(tr'[t].queue1, n)]_vars

\* C4 witness: a transition from /a/b to /c with both views rendered and a
\* before-hook registered has invoked the leave guard of B, that of A and the
\* before-hook, in that order.
C4_Witness ==
  \E t \in Transitions :
    /\ tr[t].st \in Live
    /\ Len(tr[t].queue1) = 5
    /\ tr[t].queue1[1] = <<"leave", "B">>
    /\ tr[t].queue1[2] = <<"leave", "A">>
    /\ tr[t].queue1[3][1] = "before"
    /\ tr[t].queue1[4] = <<"beforeEnter", "C">>
    /\ tr[t].started = << <<1, 1>>, <<1, 2>>, <<1, 3>> >>

\* C4 witness of the update guards: a transition from /a/b to /a/b#h holds
\* the update guard of A before that of B.
C4_WitnessUpdate ==
  \E t \in Transitions :
    /\ tr[t].st \in Live
    /\ tr[t].queue1 = << <<"update", "A">>, <<"update", "B">>, <<"async", "">> >>
    /\ Len(tr[t].started) = 2

\* The indices of the present items of a queue.
Present(q) == { k \in 1..Len(q) : q[k] # Null }

\* The guards of t whose continuation has been invoked once the guard at the
\* cursor of t invokes its own.
ContinuedWithCursor(t) == Range(tr[t].continued) \cup { <<tr[t].phase, tr[t].idx>> }

\* No activated record of t has an enter guard and no resolve-hook is
\* registered: the phase-2 queue of t has no present item.
NoPhase2Item(t) ==
  /\ resolveHooks = <<>>
  /\ \A k \in 1..Len(tr[t].activated) :
       ~extractGuard(tr[t].activated[k], "beforeRouteEnter")

\* C5: a transition has invoked a phase-2 item only if the continuation of
\* every present phase-1 item, the last one included, has been invoked; and a
\* step commits a transition (sets current to its route) only by invoking
\* the continuation of the last present phase-2 item, those of all phase-1
\* and phase-2 items before it having been invoked, or that of the last
\* phase-1 item when phase 2 has no item to run.
C5_PhasesInOrder ==
  [][\A t \in 1..Len(tr') :
       /\ tr'[t].st \in Live =>
            \A n \in 1..Len(tr'[t].started) :
              tr'[t].started[n][1] = 2 =>
                /\ \A k \in Present(tr'[t].queue1) :
                     <<1, k>> \in Range(tr'[t].continued)
                /\ <<1, Len(tr'[t].queue1)>> \in Range(tr'[t].continued)
       /\ (tr'[t].st \in Committed /\ current' = t /\ current # t) =>
            /\ t <= Len(tr) /\ tr[t].st \in Live
            /\ \A k \in Present(tr[t].queue1) : <<1, k>> \in ContinuedWithCursor(t)
            /\ IF tr[t].phase = 2
               THEN \A k \in Present(tr[t].queue) : <<2, k>> \in ContinuedWithCursor(t)
               ELSE NoPhase2Item(t)]_vars

\* C5 witness: a transition is in phase 2 and has invoked the phase-2 item
\* at index 2, after the continuation of the view resolution step.
C5_Witness ==
  \E t \in Transitions :
    /\ tr[t].st \in Live
    /\ tr[t].phase = 2
    /\ \E n \in 1..Len(tr[t].started) : tr[t].started[n] = <<2, 2>>
    /\ <<1, Len(tr[t].queue1)>> \in Range(tr[t].continued)

\* C5 witness of the commit: a transition committed with a resolve-hook
\* registered before it started.
C5_WitnessCommit ==
  /\ \E i \in 1..Len(events) : events[i].name = "onComplete"
  /\ resolveHooks # <<>>
  /\ current # StartId /\ tr[current].st = "committed"

\* The calls a step made for transition t, in order.
EventsOf(evs, t) == SelectSeq(evs, LAMBDA e : e.t = t)

\* The names of a sequence of calls.
Names(evs) == [i \in 1..Len(evs) |-> evs[i].name]

\* No guard is executing and none was invoked by the step for transition t.
NoGuardRun(t) ==
  /\ running' = 0
  /\ \A u \in 1..Len(tr') : tr'[u].st # "called"
  /\ tr'[t].started = <<>>

\* C8: a transitionTo call whose candidate route is the same as current by
\* isSameRoute, with chains of equal length, runs no guard or hook, leaves
\* current and pending as they are, calls ensureURL() and then onAbort once
\* with no error, and does not call onComplete.
C8_SameRouteNoOp ==
  [][Len(tr') > Len(tr) =>
       LET t == Len(tr')
           R == tr'[t].route
           cur == RouteOf(tr, current)
       IN (isSameRoute(R, cur) /\ Len(R.matched) = Len(cur.matched)) =>
            /\ tr'[t].st = "noop"
            /\ NoGuardRun(t)
            /\ current' = current
            /\ pending' = pending
            /\ Names(EventsOf(events', t)) = <<"ensureURL", "onAbort">>
            /\ \A i \in 1..Len(events') :
                 events'[i].t = t => events'[i].val = Undefined
            /\ tr'[t].nAbort = 1
            /\ tr'[t].nComplete = 0]_vars

\* C8 witness: with a committed route as current and a before-hook
\* registered, a call for the location of current ended as a no-op.
C8_Witness ==
  /\ current # StartId
  /\ beforeHooks # <<>>
  /\ \E t \in Transitions :
       /\ tr[t].st = "noop"
       /\ tr[t].route.path = RouteOf(tr, current).path
       /\ Names(EventsOf(events, t)) = <<"ensureURL", "onAbort">>

\* A step in which a guard of t ends t by next(false) or next(error).
NextAbortStep(t) == tr[t].st \in Live /\ tr'[t].st = "aborted"

\* The calls abort makes for an Error-like value: every registered error
\* callback in order, or the console diagnostic when there is none.
ErrorReports(t, v) ==
  IF errorCbs = <<>> THEN <<Event("console.error", t, v, current)>>
  ELSE [k \in 1..Len(errorCbs) |-> Event("errorCb", t, v, current)]

\* C9: a step in which a guard of t calls next(false) or next(e), e
\* Error-like, ends t for good without running another guard and without
\* changing current; it calls ensureURL(true) first, current being the route
\* t started from when pending names t; then, for an Error-like value and
\* only for one, the error callbacks with the value; then onAbort with the
\* value.
C9_NextFalseOrError ==
  [][\A t \in Transitions :
       /\ NextAbortStep(t) =>
            LET evs == EventsOf(events', t)
                v == evs[Len(evs)].val
                tail == IF evs[Len(evs)].name = "readyErrorCbs"
                        THEN <<Event("onAbort", t, v, current), evs[Len(evs)]>>
                        ELSE <<Event("onAbort", t, v, current)>>
            IN /\ NoGuardRun(t)
               /\ Len(tr') = Len(tr)
               /\ current' = current
               /\ pending = t => current = tr[t].from
               /\ evs = events'
               /\ v.tag \in {"false", "error"}
               /\ evs = <<Event("ensureURL", t, Named("true"), current)>>
                        \o (IF isError(v) THEN ErrorReports(t, v) ELSE <<>>)
                        \o tail
               /\ evs[Len(evs)].name = "readyErrorCbs" => (isError(v) /\ ~ready)
       /\ tr[t].st = "aborted" => tr'[t] = tr[t]]_vars

\* C9 witness: with an error callback registered, next(error) ended a
\* transition that pending names, and the callback was called.
C9_Witness ==
  \E t \in Transitions :
    /\ tr[t].st = "aborted"
    /\ pending = t
    /\ Names(events) = <<"ensureURL", "errorCb", "onAbort", "readyErrorCbs">>

\* C9 witness of next(false): no error callback is called though one is
\* registered.
C9_WitnessFalse ==
  \E t \in Transitions :
    /\ tr[t].st = "aborted"
    /\ errorCbs # <<>>
    /\ Names(events) = <<"ensureURL", "onAbort">>
    /\ events[2].val.tag = "false"

\* A step in which a guard of t ends t by next(target).
RedirectStep(t) == tr[t].st \in Live /\ tr'[t].st = "redirected"

\* C10: a step in which a guard of t calls next with a string or an object
\* with a path ends t for good without committing it: current is unchanged;
\* onAbort is called with no error, then replace(target) if the target is an
\* object with a truthy replace flag and push(target) otherwise, and in the
\* same step a new transitionTo call is made for the target.
C10_Redirect ==
  [][\A t \in Transitions :
       /\ RedirectStep(t) =>
            LET evs == EventsOf(events', t)
                to == evs[2].val
                u == Len(tr')
            IN /\ current' = current
               /\ current' # t
               /\ tr'[t].nComplete = 0
               /\ Len(evs) = 2
               /\ evs = SubSeq(events', 1, 2)
               /\ evs[1] = Event("onAbort", t, Undefined, current)
               /\ isRedirect(to)
               /\ evs[2].name = IF to.tag = "object" /\ to.replace
                                THEN "replace" ELSE "push"
               /\ u = Len(tr) + 1
               /\ tr'[u].st \in Live \cup {"noop"}
               /\ tr'[u].route.path = to.path
               /\ tr'[u].st \in Live => pending' = u
       /\ tr[t].st = "redirected" => (tr'[t] = tr[t] /\ current' # t)]_vars

\* C10 witness: a transition was redirected by next({path, replace: true})
\* and the transition to the target is in flight.
C10_Witness ==
  \E t \in Transitions :
    /\ tr[t].st = "redirected"
    /\ Len(events) = 2
    /\ events[2].name = "replace" /\ events[2].t = t
    /\ pending = Len(tr) /\ tr[pending].st \in Live

\* C10 witness of push: a transition was redirected by next(string).
C10_WitnessPush ==
  \E t \in Transitions :
    /\ tr[t].st = "redirected"
    /\ Len(events) = 2
    /\ events[2].name = "push" /\ events[2].val.tag = "string"
    /\ pending = Len(tr)

\* What a task leaves for an observer of transition t: the calls made, the
\* fields of History, and how often the callbacks of t were called.
Outcome(m, t) ==
  [ events |-> m.events, current |-> m.current, pending |-> m.pending,
    ready |-> m.ready, nAbort |-> m.tr[t].nAbort,
    nComplete |-> m.tr[t].nComplete ]

\* A guard of t is executing and may throw.
GuardExecuting(t) ==
  /\ running = t
  /\ tr[t].st = "called"
  /\ tr[t].queue[tr[t].idx][1] # "async"

\* C11 as stated: wherever a guard is executing, its throwing an Error-like
\* value v leaves the same outcome (calls made, among them ensureURL(true),
\* the error callbacks and onAbort; current, pending and ready) as its
\* calling next(v).
C11_ThrowSameAsNextError ==
  \A t \in Transitions :
    GuardExecuting(t) =>
      \A v \in { e \in ThrowValues : isError(e) } :
        Outcome(hookThrow(Machine, t, v), t) = Outcome(hookNext(Machine, t, v), t)

\* A step that commits transition t.
CommitStep(t) == tr[t].st \in Live /\ tr'[t].st = "committed"

ReadyFirings(evs) ==
  SelectSeq(evs, LAMBDA e : e.name \in {"readyCbs", "readyErrorCbs"})

\* A step in which transition t finishes, by committing or by failing.
FinishStep(t) ==
  tr[t].st \in Live /\ tr'[t].st \in {"committed", "aborted", "thrown"}

\* C13 as stated: a step in which a transition finishes, by committing or by
\* failing, fires the ready callbacks once if ready was false and leaves
\* ready true, and fires nothing if ready was true already.
C13_ReadyOnFirstFinish ==
  [][\A t \in Transitions :
       FinishStep(t) =>
         /\ ready'
         /\ Len(ReadyFirings(events')) = IF ready THEN 0 ELSE 1]_vars

\* C14 as stated: a transitionTo call that is ended by the same-route check
\* while ready is false fires the ready callbacks with no error and leaves
\* ready true.
C14_NoOpFiresReady ==
  [][(Len(tr') > Len(tr) /\ tr'[Len(tr')].st = "noop" /\ ~ready) =>
       /\ ready'
       /\ \E i \in 1..Len(events') :
            /\ events'[i].name = "readyCbs"
            /\ events'[i].val = Undefined]_vars

\* C15 as stated: pending names a transition only while that transition is
\* in flight; when no transition is in flight pending is null.
C15_PendingNullWhenIdle ==
  /\ pending # NoRoute => (pending \in Transitions /\ tr[pending].st \in Live)
  /\ (\A t \in Transitions : tr[t].st \notin Live) => pending = NoRoute

\* A step in which a guard of the superseded transition t hands false, an
\* Error-like value or a redirect target to its continuation.
SupersededNextStep(t) ==
  /\ tr[t].st \in Live
  /\ pending # t
  /\ tr'[t].st \in {"aborted", "redirected"}

\* C16 as stated: such a step calls neither ensureURL nor an error callback
\* nor push or replace for t, and makes no transitionTo call.
C16_CancelledHasNoEffect ==
  [][\A t \in Transitions :
       SupersededNextStep(t) =>
         /\ Len(tr') = Len(tr)
         /\ \A i \in 1..Len(events') :
              events'[i].t = t =>
                events'[i].name \notin {"ensureURL", "errorCb", "push", "replace"}]_vars

\* C18 as stated: no exception of the matcher leaves transitionTo (no call
\* made outside a closure ends uncaught), and a step in which a guard throws
\* calls onAbort for its transition and lets nothing escape.
C18_NoFailureEscapes ==
  [][/\ \A i \in 1..Len(events') :
          events'[i].name = "uncaught" => events'[i].t # 0
     /\ \A t \in Transitions :
          (tr[t].st \in Live /\ tr'[t].st = "thrown") =>
            /\ \E i \in 1..Len(events') :
                 events'[i].name = "onAbort" /\ events'[i].t = t
            /\ \A i \in 1..Len(events') : events'[i].name # "uncaught"]_vars

-----------------------------------------------------------------------------
(* Claims about the pure functions, under SpecFn.                          *)

\* The function fn has been applied.
Applied(fn) == call.fn = fn /\ call.st = "done"

\* C17: for all chains current and next, resolveQueue returns as updated the
\* longest common prefix of the two, as activated the rest of next and as
\* deactivated the rest of current; the lengths add up, and for identical
\* chains updated is the whole chain and the other two are empty.
C17_ResolveQueueDiff ==
  Applied("resolveQueue") =>
    LET cur == call.args[1]
        next == call.args[2]
        r == call.out
        k == CommonPrefix(cur, next)
    IN /\ r.updated = SubSeq(next, 1, k)
       /\ r.updated = SubSeq(cur, 1, k)
       /\ r.activated = SubSeq(next, k + 1, Len(next))
       /\ r.deactivated = SubSeq(cur, k + 1, Len(cur))
       /\ Len(r.updated) + Len(r.activated) = Len(next)
       /\ Len(r.updated) + Len(r.deactivated) = Len(cur)
       /\ cur = next =>
            (r.updated = cur /\ r.activated = <<>> /\ r.deactivated = <<>>)

\* C17 witness: two chains of three records that share their first record
\* and differ at the second have been diffed.
C17_Witness ==
  /\ Applied("resolveQueue")
  /\ Len(call.args[1]) = 3 /\ Len(call.args[2]) = 3
  /\ call.args[1][1] = call.args[2][1]
  /\ call.args[1][2] # call.args[2][2]
  /\ Len(call.out.updated) = 1

\* C19 as stated: isSameRoute(START, START) is true, and for every Route r
\* that is not the START object isSameRoute(r, START) and
\* isSameRoute(START, r) are both false.
C19_StartSameOnlyByIdentity ==
  Applied("isSameRoute") =>
    LET a == call.args[1]
        b == call.args[2]
    IN /\ (a.id = StartId /\ b.id = StartId) => call.out
       /\ (a.id = StartId) # (b.id = StartId) => ~call.out

\* C20: for every query object m whose values are strings, null or arrays
\* of those, of any length, parseQuery(stringifyQuery(m)) returns an object
\* value-equal to m: the same keys, each with the same value of the same
\* shape.
C20_QueryRoundTrip ==
  Applied("parseQuery") =>
    /\ ~call.out.threw
    /\ sameQuery(call.out.res, call.from)

\* The value of key in the object obj, which has the key.
valueOf(obj, key) == obj[CHOOSE k \in 1..Len(obj) : obj[k][1] = key][2]

\* normalizeLocation has been applied to a raw location without a name and
\* without the normalized marker, and did not take the params branch.
PathBranch ==
  /\ Applied("normalizeLocation")
  /\ call.args[1].name = <<>> /\ ~call.args[1].normalized
  /\ ~(call.args[1].path = <<>> /\ call.args[1].hasParams /\ call.args[2].isThere)

\* The query the parser made of the query part of the raw path; {} when the
\* parser threw.
ParsedOfPath ==
  LET parsed == parse(call.args[3], parsePath(call.args[1].path).query)
  IN IF parsed.threw THEN <<>> ELSE parsed.res

\* C21: when normalizeLocation takes the path branch, the resulting query
\* has every key of the query parsed from the path string and every key of
\* the explicit query object, each key of the explicit object with the
\* explicit value (so the explicit value wins on a collision) and every
\* other key with the parsed value; and a non-empty resulting hash starts
\* with #.
C21_QueryMergedHashPrefixed ==
  PathBranch =>
    LET explicit == call.args[1].query
        query == call.out.query
    IN /\ Range(keysOf(ParsedOfPath)) \cup Range(keysOf(explicit)) = Range(keysOf(query))
       /\ \A key \in Range(keysOf(explicit)) : valueOf(query, key) = valueOf(explicit, key)
       /\ \A key \in Range(keysOf(ParsedOfPath)) \ Range(keysOf(explicit)) :
            valueOf(query, key) = valueOf(ParsedOfPath, key)
       /\ call.out.hash # <<>> => call.out.hash[1] = "#"

\* C21 witness: a path with the query a=b&b=a and an explicit query with the
\* key a have been merged, and an explicit hash without # has been prefixed.
C21_Witness ==
  /\ PathBranch
  /\ call.args[3] = "parseQuery"
  /\ Range(keysOf(ParsedOfPath)) = { <<"a">>, <<"b">> }
  /\ Range(keysOf(call.args[1].query)) = { <<"a">> }
  /\ call.args[1].hash = <<"h">>
  /\ call.out.hash = <<"#", "h">>
  /\ valueOf(call.out.query, <<"a">>) = QString(<<"c">>)
  /\ valueOf(call.out.query, <<"b">>) = QString(<<"a">>)

\* The records whose callable the post-enter list of t or a timer of poll
\* holds.
Deferred(t) == Range(tr[t].postEnterCbs) \cup tr[t].polls

\* The step invokes the callable the enter guard of record handed over in t.
Invoked(t, record) ==
  \E i \in 1..Len(events') :
    /\ events'[i].name = "postEnterCb"
    /\ events'[i].t = t
    /\ events'[i].val = Named(record)

\* The enter guard at the cursor of t can hand a value to its next.
EnterGuardAtCursor(t) ==
  /\ canNext(t)
  /\ tr[t].queue[tr[t].idx][1] = "enter"

\* What next(to) leaves when the guard at the cursor of t calls it.
AfterNext(t, to, throws) ==
  hookNext([Machine EXCEPT !.sync = (running = t), !.onCompleteThrows = throws], t, to)

\* C23: a callable an enter guard hands to its next makes the queue proceed
\* exactly as next() does (the same calls, the same current and pending, the
\* same place in the queue), and is put on the post-enter list unless an
\* exception left next; a deferred callable is invoked only in a later step,
\* when its transition has committed, and only with the instance of its
\* record registered; one that leaves the list or its timer without being
\* invoked does so because the instance is not there and the route of its
\* transition is not current.
C23_PostEnterDeferred ==
  /\ [](\A t \in 1..Len(tr) : EnterGuardAtCursor(t) =>
          \A throws \in BOOLEAN :
            LET fn == AfterNext(t, Val("function", <<>>, FALSE), throws)
                plain == AfterNext(t, Undefined, throws)
            IN /\ fn.events = plain.events
               /\ fn.current = plain.current
               /\ fn.pending = plain.pending
               /\ fn.running = plain.running
               /\ [fn.tr[t] EXCEPT !.postEnterCbs = <<>>]
                    = [plain.tr[t] EXCEPT !.postEnterCbs = <<>>]
               /\ fn.tr[t].st \in {"called", "waiting", "committed"} =>
                    fn.tr[t].postEnterCbs
                      = Append(tr[t].postEnterCbs, tr[t].queue[tr[t].idx][2]))
  /\ [][\A t \in 1..Len(tr) : \A record \in Records :
          /\ Invoked(t, record) =>
               /\ tr[t].st = "committed"
               /\ record \in Deferred(t)
               /\ record \in instances
          /\ (tr[t].st = "committed" /\ record \in Deferred(t)
                /\ record \notin Range(tr'[t].postEnterCbs) \cup tr'[t].polls) =>
               IF record \in instances THEN Invoked(t, record)
               ELSE current # t /\ ~Invoked(t, record)]_vars

\* C23 witness: a deferred callable has been invoked with its instance.
C23_Witness ==
  \E i \in 1..Len(events) :
    /\ events[i].name = "postEnterCb"
    /\ tr[events[i].t].st = "committed"
    /\ events[i].val.tag \in instances

\* C25: with every guard invoking its continuation at most once, a
\* transitionTo call ends in at most one outcome: its onComplete and its
\* onAbort are never both invoked and neither is invoked twice, even when
\* onComplete throws while the pipeline runs synchronously.
C25_AtMostOneOutcome ==
  \A t \in 1..Len(tr) : tr[t].nComplete + tr[t].nAbort <= 1

\* C26: current is START or the route of a transitionTo call that committed,
\* and a step changes current only to the route that is pending, committing
\* its transition in that step; the route of a call that ended as a
\* same-route no-op, by an abort, a throw or a redirect, or superseded, is
\* never current.
C26_CurrentIsStartOrCommitted ==
  /\ [](current = StartId \/ (current \in 1..Len(tr) /\ tr[current].st \in Committed))
  /\ [][current' # current =>
          /\ pending = current'
          /\ current' \in 1..Len(tr)
          /\ tr[current'].st \in Live
          /\ tr'[current'].st \in Committed
          /\ pending' = NoRoute]_vars

\* C26 witness: current is the route of the second transitionTo call, which
\* committed after the first had been superseded.
C26_Witness ==
  /\ Len(tr) >= 2
  /\ current = 2
  /\ tr[2].st = "committed"
  /\ tr[1].st = "cancelled"

-----------------------------------------------------------------------------
(* Guards that invoke their continuation twice, under SpecTwice.           *)

\* The closures of the transitionTo call id that ended with a commit.
CommitsOf(id) == { t \in 1..Len(tr) : tr[t].of = id /\ tr[t].st \in Committed }

\* The step calls updateRoute for the transitionTo call id: current changes
\* to its route, or a closure of it ends with a commit.
UpdatesRoute(id) ==
  \/ current' = id /\ current # id
  \/ \E t \in 1..Len(tr) :
       tr[t].of = id /\ tr[t].st \in Live /\ tr'[t].st \in Committed

\* C24: a transitionTo call commits at most once, even when a guard invokes
\* its continuation a second time: at most one of its continuations ends
\* with a commit, and once one has, no step calls updateRoute for it again.
C24_CommitsAtMostOnce ==
  /\ [](\A id \in 1..Len(tr) : Cardinality(CommitsOf(id)) <= 1)
  /\ [][\A id \in 1..Len(tr) : CommitsOf(id) # {} => ~UpdatesRoute(id)]_vars

\* C24 witness: a guard has invoked its continuation twice; one of the two
\* continuations committed the transition and the other reached the end of
\* the queue afterwards and was refused.
C24_Witness ==
  \E t, u \in 1..Len(tr) :
    /\ t # u
    /\ tr[t].of = tr[u].of
    /\ tr[t].st = "committed"
    /\ tr[u].st = "cancelled"
    /\ current = tr[t].of

-----------------------------------------------------------------------------
(* Liveness, under SpecLive.                                               *)

\* The transitionTo call t has passed the same-route check and has not ended.
InFlight(t) == Len(tr) >= t /\ tr[t].st \in Live

\* t has committed: current is its route, pending is null and its onComplete
\* has been invoked.
HasCommitted(t) ==
  /\ Len(tr) = t
  /\ tr[t].st \in Committed
  /\ current = t
  /\ pending = NoRoute
  /\ tr[t].nComplete = 1

\* A transitionTo call was made after t, or a guard of t handed false, an
\* Error or a redirect target to its continuation, or threw.
Excused(t) ==
  /\ Len(tr) >= t
  /\ Len(tr) > t \/ tr[t].st \in {"aborted", "thrown", "redirected"}

\* Nothing is in flight, and every transitionTo call that passed the
\* same-route check has committed unless it is excused.
Settled ==
  \A t \in 1..Len(tr) :
    /\ ~InFlight(t)
    /\ tr[t].st = "noop" \/ HasCommitted(t) \/ Excused(t)

=============================================================================
